---- MODULE Spec2Model ----
(***************************************************************************)
(* A model of FrameGraph (src/src/FrameGraph.cpp): the declaration phase   *)
(* (Builder create/read/write/setSideEffect, import), compile() (reference *)
(* counting, culling, lifetime computation) and execute().                 *)
(*                                                                         *)
(* Identifiers are 0-based as in the C++ code: pass p is m_passNodes[p+1], *)
(* resource node id is m_resourceNodes[id+1], entry e is                   *)
(* m_resourceRegistry[e+1] of the TLA+ sequences.  A null PassNode pointer *)
(* is NoPass.  A failing assert() stops the program (pc = "aborted").      *)
(* compile() is followed in three steps (counting, one step per iteration  *)
(* of the culling loop, lifetimes), execute() in two steps per pass that   *)
(* runs: creates and hooks, then the callback and the destroys.  The calls *)
(* execute() makes on the allocator, the hooks and the callbacks are kept  *)
(* in log.                                                                 *)
(***************************************************************************)
EXTENDS Integers, Sequences, FiniteSets, TLC

\* ---- bounds of the model ------------------------------------------------
\* passes, resource entries, and declarations (passes, entries, read and write
\* calls, side-effect marks) of a graph
MaxPasses == 3
MaxEntries == 1
MaxSize == 8
\* the size of a graph whose reads and writes may pass the ignored flags
MaxSizeFlags == 6
\* calls of compile() on one graph, and the size of a graph compiled again
MaxCompiles == 2
MaxSizeRecompile == 7

\* ---- program constants --------------------------------------------------
kResourceInitialVersion == 1
\* the access flags value that asks for no hook (all bits set, read as signed)
kFlagsIgnored == -1
\* some other access flags value
kFlagsUsed == 1
NoPass == -1
NoId == -1

\* the access flags the declarations pass to read and write
Flags == {kFlagsUsed}

VARIABLES
  m_passNodes,          \* std::vector<PassNode>
  m_resourceNodes,      \* std::vector<ResourceNode>
  m_resourceRegistry,   \* std::vector<ResourceEntry>
  unreferencedResources,\* the culling work stack of compile(), top = last
  pc,                   \* position of the driving thread
  execIndex,            \* how many passes the loop of execute() has visited
  log,                  \* the allocator / hook / callback calls of execute()
  lastCall,             \* the last Builder call and the id it returned
  compiles              \* what each returned call of compile() decided

vars == <<m_passNodes, m_resourceNodes, m_resourceRegistry,
          unreferencedResources, pc, execIndex, log, lastCall, compiles>>

\* ---- accessors ----------------------------------------------------------
PassIds == 0 .. (Len(m_passNodes) - 1)
NodeIds == 0 .. (Len(m_resourceNodes) - 1)
EntryIds == 0 .. (Len(m_resourceRegistry) - 1)

PassAt(passes, p) == passes[p + 1]
NodeAt(nodes, id) == nodes[id + 1]
EntryAt(registry, e) == registry[e + 1]

_getResourceNode(id) == m_resourceNodes[id + 1]
_getResourceEntry(id) == m_resourceRegistry[_getResourceNode(id).m_resourceId + 1]

EntryOf(id) == _getResourceNode(id).m_resourceId

\* a validity check that accepts every handle
isValid_Always(id) == TRUE

isValid(id) ==
  _getResourceNode(id).m_version = _getResourceEntry(id).m_version

isImported(entry) == entry.m_imported
isTransient(entry) == ~ entry.m_imported

hasSideEffect(pass) == pass.m_hasSideEffect
canExecute(pass) == pass.m_refCount > 0 \/ hasSideEffect(pass)

RECURSIVE HasId(_, _, _)
HasId(ids, id, i) ==
  IF i > Len(ids) THEN FALSE
  ELSE IF ids[i] = id THEN TRUE ELSE HasId(ids, id, i + 1)

creates(pass, id) == HasId(pass.m_creates, id, 1)

\* the pass a Builder is bound to: the pass being declared
CurrentPass == Len(m_passNodes) - 1

\* ---- construction -------------------------------------------------------
NewPassNode ==
  [m_reads |-> <<>>, m_writes |-> <<>>, m_creates |-> <<>>,
   m_hasSideEffect |-> FALSE, m_refCount |-> 0]

NewResourceNode(resourceId, version) ==
  [m_resourceId |-> resourceId, m_version |-> version,
   m_refCount |-> 0, m_producer |-> NoPass]

NewResourceEntry(imported) ==
  [m_version |-> kResourceInitialVersion, m_imported |-> imported,
   m_producer |-> NoPass, m_last |-> NoPass]

_createResourceNode(nodes, resourceId) ==
  Append(nodes, NewResourceNode(resourceId, kResourceInitialVersion))

NoCall == [op |-> "none", pass |-> NoPass, id |-> NoId, flags |-> 0, ret |-> NoId]

Init ==
  /\ m_passNodes = <<>>
  /\ m_resourceNodes = <<>>
  /\ m_resourceRegistry = <<>>
  /\ unreferencedResources = <<>>
  /\ pc = "declare"
  /\ execIndex = 0
  /\ log = <<>>
  /\ lastCall = NoCall
  /\ compiles = <<>>

\* ---- declaration phase --------------------------------------------------
\* the number of read and write declarations made so far, from pass p on
RECURSIVE Declared(_, _)
Declared(passes, p) ==
  IF p >= Len(passes) THEN 0
  ELSE Len(PassAt(passes, p).m_reads) + Len(PassAt(passes, p).m_writes)
       + Declared(passes, p + 1)

\* the number of passes marked as having a side effect, from pass p on
RECURSIVE Marked(_, _)
Marked(passes, p) ==
  IF p >= Len(passes) THEN 0
  ELSE (IF PassAt(passes, p).m_hasSideEffect THEN 1 ELSE 0) + Marked(passes, p + 1)

\* the size of the declared graph: passes, entries, side-effect marks and
\* read / write calls (a renaming write declares a read and a write in one call)
Size ==
  Len(m_passNodes) + Len(m_resourceRegistry) + Marked(m_passNodes, 0)
  + Declared(m_passNodes, 0) - (Len(m_resourceNodes) - Len(m_resourceRegistry))

DeclUnchanged == UNCHANGED <<unreferencedResources, pc, execIndex, log, compiles>>

\* FrameGraph::addCallbackPass -> _createPassNode
_createPassNode ==
  /\ pc = "declare"
  /\ Len(m_passNodes) < MaxPasses
  /\ Size < MaxSize
  /\ m_passNodes' = Append(m_passNodes, NewPassNode)
  /\ lastCall' = [NoCall EXCEPT !.op = "addPass", !.pass = Len(m_passNodes)]
  /\ UNCHANGED <<m_resourceNodes, m_resourceRegistry>>
  /\ DeclUnchanged

\* FrameGraph::import
Import ==
  /\ pc = "declare"
  /\ Len(m_resourceRegistry) < MaxEntries
  /\ Size < MaxSize
  /\ m_resourceRegistry' = Append(m_resourceRegistry, NewResourceEntry(TRUE))
  /\ m_resourceNodes' = _createResourceNode(m_resourceNodes, Len(m_resourceRegistry))
  /\ lastCall' = [NoCall EXCEPT !.op = "import", !.ret = Len(m_resourceNodes)]
  /\ UNCHANGED m_passNodes
  /\ DeclUnchanged

\* FrameGraph::Builder::create
BuilderCreate ==
  /\ pc = "declare"
  /\ Len(m_passNodes) > 0
  /\ Len(m_resourceRegistry) < MaxEntries
  /\ Size < MaxSize
  /\ m_resourceRegistry' = Append(m_resourceRegistry, NewResourceEntry(FALSE))
  /\ m_resourceNodes' = _createResourceNode(m_resourceNodes, Len(m_resourceRegistry))
  /\ m_passNodes' = [m_passNodes EXCEPT
         ![CurrentPass + 1].m_creates = Append(@, Len(m_resourceNodes))]
  /\ lastCall' = [NoCall EXCEPT !.op = "create", !.pass = CurrentPass,
                                !.ret = Len(m_resourceNodes)]
  /\ DeclUnchanged

\* PassNode::_read, PassNode::_write
_read(pass, id, flags) ==
  [pass EXCEPT !.m_reads = Append(@, [id |-> id, flags |-> flags])]
_write(pass, id, flags) ==
  [pass EXCEPT !.m_writes = Append(@, [id |-> id, flags |-> flags])]

\* FrameGraph::Builder::setSideEffect on a pass record
setSideEffect(pass) == [pass EXCEPT !.m_hasSideEffect = TRUE]

\* a clone that takes the version of the entry as it is
CloneVersion_Same(id) == _getResourceEntry(id).m_version

\* FrameGraph::_clone: the registry and the nodes after cloning id
CloneVersion(id) == _getResourceEntry(id).m_version + 1
\* a clone that leaves the version of the entry alone
_cloneRegistry_NoBump(id) == m_resourceRegistry

_cloneRegistry(id) ==
  [m_resourceRegistry EXCEPT ![EntryOf(id) + 1].m_version = CloneVersion(id)]
\* a clone whose node captures the version of the entry before the increment
_cloneNodes_Stale(id) ==
  Append(m_resourceNodes,
         NewResourceNode(EntryOf(id), _getResourceEntry(id).m_version))

_cloneNodes(id) ==
  Append(m_resourceNodes, NewResourceNode(EntryOf(id), CloneVersion(id)))

Abort(op, id, flags) ==
  /\ pc' = "aborted"
  /\ lastCall' = [op |-> op, pass |-> CurrentPass, id |-> id,
                  flags |-> flags, ret |-> NoId]
  /\ UNCHANGED <<m_passNodes, m_resourceNodes, m_resourceRegistry,
                 unreferencedResources, execIndex, log, compiles>>

\* a read that also marks the pass as having a side effect
BuilderRead_Marks(id, flags) ==
  /\ pc = "declare"
  /\ Len(m_passNodes) > 0
  /\ Size < MaxSize
  /\ IF ~ isValid(id) THEN Abort("read", id, flags)
     ELSE
       /\ m_passNodes' = [m_passNodes EXCEPT
              ![CurrentPass + 1] = setSideEffect(_read(@, id, flags))]
       /\ lastCall' = [op |-> "read", pass |-> CurrentPass, id |-> id,
                       flags |-> flags, ret |-> id]
       /\ UNCHANGED <<m_resourceNodes, m_resourceRegistry>>
       /\ DeclUnchanged

\* FrameGraph::Builder::read
BuilderRead(id, flags) ==
  /\ pc = "declare"
  /\ Len(m_passNodes) > 0
  /\ Size < MaxSize
  /\ IF ~ isValid(id) THEN Abort("read", id, flags)
     ELSE
       /\ m_passNodes' = [m_passNodes EXCEPT
              ![CurrentPass + 1] = _read(@, id, flags)]
       /\ lastCall' = [op |-> "read", pass |-> CurrentPass, id |-> id,
                       flags |-> flags, ret |-> id]
       /\ UNCHANGED <<m_resourceNodes, m_resourceRegistry>>
       /\ DeclUnchanged

\* a write that never marks the pass
WriteSideEffect_Never(pass, id) == pass

\* the pass after the first two statements of Builder::write
WriteSideEffect(pass, id) ==
  IF isImported(_getResourceEntry(id)) THEN setSideEffect(pass) ELSE pass

\* a write that never renames
WriteRenames_Never(pass, id) == FALSE

\* whether Builder::write renames (clones) the resource
WriteRenames(pass, id) == ~ creates(pass, id)

\* FrameGraph::Builder::write
BuilderWrite(id, flags) ==
  /\ pc = "declare"
  /\ Len(m_passNodes) > 0
  /\ LET cur == PassAt(m_passNodes, CurrentPass)
         marked == WriteSideEffect(cur, id)
     IN IF ~ isValid(id) THEN Abort("write", id, flags)
        ELSE IF ~ WriteRenames(cur, id) THEN
          /\ Size < MaxSize
          /\ m_passNodes' = [m_passNodes EXCEPT
                 ![CurrentPass + 1] = _write(marked, id, flags)]
          /\ lastCall' = [op |-> "write", pass |-> CurrentPass, id |-> id,
                          flags |-> flags, ret |-> id]
          /\ UNCHANGED <<m_resourceNodes, m_resourceRegistry>>
          /\ DeclUnchanged
        ELSE
          /\ Size < MaxSize
          /\ m_resourceRegistry' = _cloneRegistry(id)
          /\ m_resourceNodes' = _cloneNodes(id)
          /\ m_passNodes' = [m_passNodes EXCEPT
                 ![CurrentPass + 1] =
                    _write(_read(marked, id, kFlagsIgnored),
                           Len(m_resourceNodes), flags)]
          /\ lastCall' = [op |-> "write", pass |-> CurrentPass, id |-> id,
                          flags |-> flags, ret |-> Len(m_resourceNodes)]
          /\ DeclUnchanged

\* FrameGraph::Builder::setSideEffect
BuilderSetSideEffect ==
  /\ pc = "declare"
  /\ Size < MaxSize
  /\ Len(m_passNodes) > 0
  /\ m_passNodes' = [m_passNodes EXCEPT ![CurrentPass + 1] = setSideEffect(@)]
  /\ lastCall' = [NoCall EXCEPT !.op = "setSideEffect", !.pass = CurrentPass]
  /\ UNCHANGED <<m_resourceNodes, m_resourceRegistry>>
  /\ DeclUnchanged

\* ---- compile(): reference counting --------------------------------------
\* a first loop that leaves the reads uncounted
CountReads_Uncounted(nodes, reads, i) == nodes

\* a first loop that counts the reads in the version field of the node
RECURSIVE CountReads_InVersion(_, _, _)
CountReads_InVersion(nodes, reads, i) ==
  IF i > Len(reads) THEN nodes
  ELSE CountReads_InVersion([nodes EXCEPT ![reads[i].id + 1].m_version = @ + 1],
                            reads, i + 1)

\* for (auto &[id, _] : pass.m_reads) consumed.m_refCount++
RECURSIVE CountReads(_, _, _)
CountReads(nodes, reads, i) ==
  IF i > Len(reads) THEN nodes
  ELSE CountReads([nodes EXCEPT ![reads[i].id + 1].m_refCount = @ + 1],
                  reads, i + 1)

\* for (auto &[id, _] : pass.m_writes) written.m_producer = &pass
RECURSIVE SetProducers(_, _, _, _)
SetProducers(nodes, writes, i, p) ==
  IF i > Len(writes) THEN nodes
  ELSE SetProducers([nodes EXCEPT ![writes[i].id + 1].m_producer = p],
                    writes, i + 1, p)

\* the resource nodes after the first loop of compile(), from pass p on
RECURSIVE CountPasses(_, _, _)
CountPasses(nodes, passes, p) ==
  IF p >= Len(passes) THEN nodes
  ELSE CountPasses(
         SetProducers(CountReads(nodes, PassAt(passes, p).m_reads, 1),
                      PassAt(passes, p).m_writes, 1, p),
         passes, p + 1)

\* a reference count taken from the read list
InitialRefCount_Reads(pass) == Len(pass.m_reads)

\* pass.m_refCount = pass.m_writes.size()
InitialRefCount(pass) == Len(pass.m_writes)

\* the initial work stack: every node with a zero reference count, in order
RECURSIVE SeedStack(_, _)
SeedStack(nodes, id) ==
  IF id >= Len(nodes) THEN <<>>
  ELSE IF NodeAt(nodes, id).m_refCount = 0
       THEN <<id>> \o SeedStack(nodes, id + 1)
       ELSE SeedStack(nodes, id + 1)

\* the first loop of compile() and the seeding of the work stack; the
\* reference counts of the nodes are added to, not reset
CountAll ==
  /\ LET counted == CountPasses(m_resourceNodes, m_passNodes, 0)
     IN /\ m_resourceNodes' = counted
        /\ unreferencedResources' = SeedStack(counted, 0)
  /\ m_passNodes' = [i \in 1 .. Len(m_passNodes) |->
        [m_passNodes[i] EXCEPT !.m_refCount = InitialRefCount(m_passNodes[i])]]
  /\ pc' = "cull"
  /\ lastCall' = NoCall
  /\ UNCHANGED <<m_resourceRegistry, execIndex, log, compiles>>

\* compile(), up to the culling loop
CompileCount ==
  /\ pc = "declare"
  /\ CountAll

\* compile() called again on the graph as it is, before or after execute()
Recompile ==
  /\ pc = "done" \/ (pc = "execute" /\ execIndex = 0)
  /\ Len(compiles) < MaxCompiles
  /\ CountAll

\* a release that pushes every node it decrements
RECURSIVE ReleaseReads_AlwaysPush(_, _, _, _)
ReleaseReads_AlwaysPush(nodes, stack, reads, i) ==
  IF i > Len(reads) THEN [nodes |-> nodes, stack |-> stack]
  ELSE LET id == reads[i].id
           count == NodeAt(nodes, id).m_refCount - 1
           released == [nodes EXCEPT ![id + 1].m_refCount = count]
       IN ReleaseReads_AlwaysPush(released, Append(stack, id), reads, i + 1)

\* ---- compile(): culling -------------------------------------------------
\* the reads of a pass that died: decrement, push what reaches zero
RECURSIVE ReleaseReads(_, _, _, _)
ReleaseReads(nodes, stack, reads, i) ==
  IF i > Len(reads) THEN [nodes |-> nodes, stack |-> stack]
  ELSE LET id == reads[i].id
           count == NodeAt(nodes, id).m_refCount - 1
           released == [nodes EXCEPT ![id + 1].m_refCount = count]
       IN ReleaseReads(released,
                       IF count = 0 THEN Append(stack, id) ELSE stack,
                       reads, i + 1)

\* if (producer == nullptr || producer->hasSideEffect()) continue
CullSkips(passes, producer) ==
  producer = NoPass \/ hasSideEffect(PassAt(passes, producer))

\* a loop iteration that releases the reads of the producer at every
\* decrement, not only at the one that reaches zero
CullStep_AlwaysReleases ==
  /\ pc = "cull"
  /\ Len(unreferencedResources) > 0
  /\ LET top == unreferencedResources[Len(unreferencedResources)]
         rest == SubSeq(unreferencedResources, 1, Len(unreferencedResources) - 1)
         producer == NodeAt(m_resourceNodes, top).m_producer
     IN IF CullSkips(m_passNodes, producer)
        THEN /\ unreferencedResources' = rest
             /\ UNCHANGED <<m_passNodes, m_resourceNodes>>
        ELSE LET count == PassAt(m_passNodes, producer).m_refCount - 1
                 after == ReleaseReads(m_resourceNodes, rest,
                              PassAt(m_passNodes, producer).m_reads, 1)
             IN /\ m_passNodes' = [m_passNodes EXCEPT
                       ![producer + 1].m_refCount = count]
                /\ m_resourceNodes' = after.nodes
                /\ unreferencedResources' = after.stack
  /\ UNCHANGED <<m_resourceRegistry, pc, execIndex, log, lastCall, compiles>>

\* one iteration of the while loop of compile()
CullStep ==
  /\ pc = "cull"
  /\ Len(unreferencedResources) > 0
  /\ LET top == unreferencedResources[Len(unreferencedResources)]
         rest == SubSeq(unreferencedResources, 1, Len(unreferencedResources) - 1)
         producer == NodeAt(m_resourceNodes, top).m_producer
     IN IF CullSkips(m_passNodes, producer)
        THEN /\ unreferencedResources' = rest
             /\ UNCHANGED <<m_passNodes, m_resourceNodes>>
        ELSE LET count == PassAt(m_passNodes, producer).m_refCount - 1
                 after == ReleaseReads(m_resourceNodes, rest,
                              PassAt(m_passNodes, producer).m_reads, 1)
             IN /\ m_passNodes' = [m_passNodes EXCEPT
                       ![producer + 1].m_refCount = count]
                /\ IF count = 0
                   THEN /\ m_resourceNodes' = after.nodes
                        /\ unreferencedResources' = after.stack
                   ELSE /\ m_resourceNodes' = m_resourceNodes
                        /\ unreferencedResources' = rest
  /\ UNCHANGED <<m_resourceRegistry, pc, execIndex, log, lastCall, compiles>>

\* ---- compile(): lifetimes -----------------------------------------------
RECURSIVE SetEntryProducers(_, _, _, _, _)
SetEntryProducers(registry, nodes, ids, i, p) ==
  IF i > Len(ids) THEN registry
  ELSE SetEntryProducers(
         [registry EXCEPT ![NodeAt(nodes, ids[i]).m_resourceId + 1].m_producer = p],
         nodes, ids, i + 1, p)

RECURSIVE SetEntryLast(_, _, _, _, _)
SetEntryLast(registry, nodes, accesses, i, p) ==
  IF i > Len(accesses) THEN registry
  ELSE SetEntryLast(
         [registry EXCEPT ![NodeAt(nodes, accesses[i].id).m_resourceId + 1].m_last = p],
         nodes, accesses, i + 1, p)

\* a lifetime loop that skips exactly the passes execute() skips
LifetimeSkips_CanExecute(pass) == ~ canExecute(pass)

\* if (pass.m_refCount == 0) continue
LifetimeSkips(pass) == pass.m_refCount = 0

\* the registry after the last loop of compile(), from pass p on
RECURSIVE Lifetimes(_, _, _, _)
Lifetimes(registry, nodes, passes, p) ==
  IF p >= Len(passes) THEN registry
  ELSE IF LifetimeSkips(PassAt(passes, p))
       THEN Lifetimes(registry, nodes, passes, p + 1)
       ELSE Lifetimes(
              SetEntryLast(
                SetEntryLast(
                  SetEntryProducers(registry, nodes,
                                    PassAt(passes, p).m_creates, 1, p),
                  nodes, PassAt(passes, p).m_writes, 1, p),
                nodes, PassAt(passes, p).m_reads, 1, p),
              nodes, passes, p + 1)

\* what a call of compile() decided: the passes that execute() will run and
\* the producer and last-use pass of every entry; at is the length of the log
\* when the call returned, ran tells whether execute() visited a pass since
\* the call before
CompileResult(passes, registry, at, ran) ==
  [executes |-> {p \in 0 .. Len(passes) - 1 : canExecute(PassAt(passes, p))},
   producer |-> [i \in 1 .. Len(registry) |-> registry[i].m_producer],
   last |-> [i \in 1 .. Len(registry) |-> registry[i].m_last],
   at |-> at,
   ran |-> ran]

\* compile(), after the culling loop
CompileLifetime ==
  /\ pc = "cull"
  /\ Len(unreferencedResources) = 0
  /\ LET registry == Lifetimes(m_resourceRegistry, m_resourceNodes, m_passNodes, 0)
     IN /\ m_resourceRegistry' = registry
        /\ compiles' = Append(compiles,
               CompileResult(m_passNodes, registry, Len(log), execIndex > 0))
  /\ pc' = "execute"
  /\ execIndex' = 0
  /\ UNCHANGED <<m_passNodes, m_resourceNodes, unreferencedResources, log, lastCall>>

\* ---- execute() ----------------------------------------------------------
Event(ev, p, e) == [ev |-> ev, pass |-> p, e |-> e]

CreateEvents(pass, p) ==
  [i \in 1 .. Len(pass.m_creates) |-> Event("create", p, EntryOf(pass.m_creates[i]))]

\* hooks for every access, whatever its flags
HookEvents_Unfiltered(ev, accesses, p) ==
  [i \in 1 .. Len(accesses) |-> Event(ev, p, EntryOf(accesses[i].id))]

HookEvents(ev, accesses, p) ==
  LET hooked == SelectSeq(accesses, LAMBDA a : a.flags # kFlagsIgnored)
  IN [i \in 1 .. Len(hooked) |-> Event(ev, p, EntryOf(hooked[i].id))]

\* entry.m_last == &pass && entry.isTransient()
DestroysAfter(entry, p) == entry.m_last = p /\ isTransient(entry)

DestroyEvents(p) ==
  LET all == [i \in 1 .. Len(m_resourceRegistry) |-> i - 1]
      dead == SelectSeq(all, LAMBDA e : DestroysAfter(EntryAt(m_resourceRegistry, e), p))
  IN [i \in 1 .. Len(dead) |-> Event("destroy", p, dead[i])]

\* a skip test that looks at the reference count only
ExecuteSkips_RefCountOnly(pass) == pass.m_refCount = 0

\* if (!pass.canExecute()) continue
ExecuteSkips(pass) == ~ canExecute(pass)

\* a loop over the passes from the last to the first
ExecOrder_Reversed(n) == [i \in 1 .. n |-> n - i]

\* for (auto &pass : m_passNodes): the passes in the order execute() visits them
ExecOrder(n) == [i \in 1 .. n |-> i - 1]

\* the pass execute() is at
execPass == ExecOrder(Len(m_passNodes))[execIndex + 1]

ExecUnchanged ==
  UNCHANGED <<m_passNodes, m_resourceNodes, m_resourceRegistry,
              unreferencedResources, lastCall, compiles>>

ExecuteSkip ==
  /\ pc = "execute"
  /\ execIndex < Len(m_passNodes)
  /\ ExecuteSkips(PassAt(m_passNodes, execPass))
  /\ execIndex' = execIndex + 1
  /\ UNCHANGED <<pc, log>>
  /\ ExecUnchanged

\* creates and pre-read / pre-write hooks of the pass
ExecutePrepare ==
  /\ pc = "execute"
  /\ execIndex < Len(m_passNodes)
  /\ ~ ExecuteSkips(PassAt(m_passNodes, execPass))
  /\ LET pass == PassAt(m_passNodes, execPass)
     IN log' = log \o CreateEvents(pass, execPass)
                   \o HookEvents("preRead", pass.m_reads, execPass)
                   \o HookEvents("preWrite", pass.m_writes, execPass)
  /\ pc' = "invoke"
  /\ UNCHANGED execIndex
  /\ ExecUnchanged

\* std::invoke(*pass.m_exec, resources, context), then the destroys
ExecuteInvoke ==
  /\ pc = "invoke"
  /\ log' = Append(log, Event("call", execPass, NoId)) \o DestroyEvents(execPass)
  /\ execIndex' = execIndex + 1
  /\ pc' = "execute"
  /\ ExecUnchanged

ExecuteReturn ==
  /\ pc = "execute"
  /\ execIndex >= Len(m_passNodes)
  /\ pc' = "done"
  /\ UNCHANGED <<execIndex, log>>
  /\ ExecUnchanged

\* ---- specification ------------------------------------------------------
Next ==
  \/ _createPassNode
  \/ Import
  \/ BuilderCreate
  \/ \E id \in NodeIds, flags \in Flags : BuilderRead(id, flags)
  \/ \E id \in NodeIds, flags \in Flags : BuilderWrite(id, flags)
  \/ BuilderSetSideEffect
  \/ CompileCount
  \/ CullStep
  \/ CompileLifetime
  \/ ExecuteSkip
  \/ ExecutePrepare
  \/ ExecuteInvoke
  \/ ExecuteReturn

Spec == Init /\ [][Next]_vars

\* compile() is one sequential call: once entered, its loop keeps iterating
\* and the lifetime loop follows it
FairSpec == Spec /\ WF_vars(CullStep) /\ WF_vars(CompileLifetime)

\* the flags a caller may pass: a value of its own or the ignored value
AllFlags == {kFlagsUsed, kFlagsIgnored}

\* as Next, with reads and writes that may also pass the ignored flags, on
\* graphs of a size up to MaxSizeFlags
NextFlags ==
  \/ Size < MaxSizeFlags /\ _createPassNode
  \/ Size < MaxSizeFlags /\ Import
  \/ Size < MaxSizeFlags /\ BuilderCreate
  \/ \E id \in NodeIds, flags \in AllFlags :
       Size < MaxSizeFlags /\ BuilderRead(id, flags)
  \/ \E id \in NodeIds, flags \in AllFlags :
       Size < MaxSizeFlags /\ BuilderWrite(id, flags)
  \/ Size < MaxSizeFlags /\ BuilderSetSideEffect
  \/ CompileCount
  \/ CullStep
  \/ CompileLifetime
  \/ ExecuteSkip
  \/ ExecutePrepare
  \/ ExecuteInvoke
  \/ ExecuteReturn

SpecFlags == Init /\ [][NextFlags]_vars

\* as Next, with compile() called again before or after execute(), on graphs
\* of a size up to MaxSizeRecompile
NextRecompile ==
  \/ Size < MaxSizeRecompile /\ _createPassNode
  \/ Size < MaxSizeRecompile /\ Import
  \/ Size < MaxSizeRecompile /\ BuilderCreate
  \/ \E id \in NodeIds, flags \in Flags :
       Size < MaxSizeRecompile /\ BuilderRead(id, flags)
  \/ \E id \in NodeIds, flags \in Flags :
       Size < MaxSizeRecompile /\ BuilderWrite(id, flags)
  \/ Size < MaxSizeRecompile /\ BuilderSetSideEffect
  \/ CompileCount
  \/ Recompile
  \/ CullStep
  \/ CompileLifetime
  \/ ExecuteSkip
  \/ ExecutePrepare
  \/ ExecuteInvoke
  \/ ExecuteReturn

SpecRecompile == Init /\ [][NextRecompile]_vars

TypeOK ==
  /\ pc \in {"declare", "aborted", "cull", "execute", "invoke", "done"}
  /\ Len(m_passNodes) <= MaxPasses
  /\ Len(m_resourceRegistry) <= MaxEntries

\* ---- observations used by the properties ---------------------------------
Compiled == pc \in {"execute", "invoke", "done"}

Positions(ev, e) == {i \in 1 .. Len(log) : log[i].ev = ev /\ log[i].e = e}
Calls(p) == {i \in 1 .. Len(log) : log[i].ev = "call" /\ log[i].pass = p}

\* the entries the declarations of a pass refer to
CreatedEntries(pass) ==
  {EntryOf(pass.m_creates[i]) : i \in 1 .. Len(pass.m_creates)}
ReadEntries(pass) ==
  {EntryOf(pass.m_reads[i].id) : i \in 1 .. Len(pass.m_reads)}
WrittenEntries(pass) ==
  {EntryOf(pass.m_writes[i].id) : i \in 1 .. Len(pass.m_writes)}
UsedEntries(pass) ==
  CreatedEntries(pass) \cup ReadEntries(pass) \cup WrittenEntries(pass)

Executes(p) ==
  PassAt(m_passNodes, p).m_refCount > 0 \/ PassAt(m_passNodes, p).m_hasSideEffect

Transient(e) == ~ EntryAt(m_resourceRegistry, e).m_imported

\* the backing resource of entry e exists: created and not destroyed
Live(e) == Positions("create", e) # {} /\ Positions("destroy", e) = {}

\* C1: after compile() and one execute(), every transient entry that a pass
\* that executes creates, reads or writes was created exactly once and
\* destroyed exactly once, the create before the destroy.
C1_ExactlyOnceLifecycle ==
  pc = "done" =>
    \A e \in EntryIds :
      (Transient(e) /\ \E p \in PassIds :
           Executes(p) /\ e \in UsedEntries(PassAt(m_passNodes, p)))
      => /\ Cardinality(Positions("create", e)) = 1
         /\ Cardinality(Positions("destroy", e)) = 1
         /\ \A i \in Positions("create", e), j \in Positions("destroy", e) : i < j

\* C2: when the callback of an executing pass is invoked, every transient
\* entry the pass reads or writes is live (created and not yet destroyed).
C2_LiveAtCallback ==
  pc = "invoke" =>
    \A e \in ReadEntries(PassAt(m_passNodes, execPass))
             \cup WrittenEntries(PassAt(m_passNodes, execPass)) :
      Transient(e) => Live(e)

\* C3: execute() runs nothing (create, hook, callback, destroy) for a pass
\* with reference count zero and no side effect, and once execute() returned
\* every pass with a side effect had its callback invoked exactly once.
C3_CullingCorrectness ==
  /\ \A i \in 1 .. Len(log) : Executes(log[i].pass)
  /\ pc = "done" =>
       \A p \in PassIds :
         PassAt(m_passNodes, p).m_hasSideEffect => Cardinality(Calls(p)) = 1

\* execute() returned, it skipped a culled pass with declarations and it
\* invoked a side-effect pass whose reference count is zero
C3_Witness ==
  /\ pc = "done"
  /\ \E p \in PassIds :
       /\ ~ Executes(p)
       /\ PassAt(m_passNodes, p).m_creates # <<>>
       /\ PassAt(m_passNodes, p).m_writes # <<>>
       /\ Calls(p) = {}
  /\ \E p \in PassIds :
       /\ PassAt(m_passNodes, p).m_hasSideEffect
       /\ PassAt(m_passNodes, p).m_refCount = 0
       /\ Calls(p) # {}

\* C4: after compile(), the producer of every node read by a pass that
\* executes has a positive reference count.
C4_NeededPassSurvives ==
  Compiled =>
    \A p \in PassIds :
      Executes(p) =>
        \A i \in 1 .. Len(PassAt(m_passNodes, p).m_reads) :
          LET n == _getResourceNode(PassAt(m_passNodes, p).m_reads[i].id)
          IN n.m_producer # NoPass
               => PassAt(m_passNodes, n.m_producer).m_refCount > 0

\* a chain of three passes: the side-effect pass p3 reads what p2 wrote, p2
\* reads what p1 wrote, p1 and p2 have no side effect and all three ran
C4_Witness ==
  /\ pc = "done"
  /\ \E p1, p2, p3 \in PassIds :
       /\ p1 < p2 /\ p2 < p3
       /\ PassAt(m_passNodes, p3).m_hasSideEffect
       /\ ~ PassAt(m_passNodes, p1).m_hasSideEffect
       /\ ~ PassAt(m_passNodes, p2).m_hasSideEffect
       /\ \E i \in 1 .. Len(PassAt(m_passNodes, p3).m_reads) :
            _getResourceNode(PassAt(m_passNodes, p3).m_reads[i].id).m_producer = p2
       /\ \E i \in 1 .. Len(PassAt(m_passNodes, p2).m_reads) :
            _getResourceNode(PassAt(m_passNodes, p2).m_reads[i].id).m_producer = p1
       /\ Calls(p1) # {} /\ Calls(p2) # {} /\ Calls(p3) # {}

\* ---- declaration-phase properties -----------------------------------------
\* the captured version of handle h is the current version of its entry
CurrentIn(nodes, registry, h) ==
  nodes[h + 1].m_version = registry[nodes[h + 1].m_resourceId + 1].m_version
Current(h) == CurrentIn(m_resourceNodes, m_resourceRegistry, h)

\* a renaming write (clone) of the entry of h happened after h was produced:
\* every node of an entry but its first is the product of one clone
Superseded(h) ==
  \E h2 \in NodeIds :
    h2 > h /\ m_resourceNodes[h2 + 1].m_resourceId = m_resourceNodes[h + 1].m_resourceId

\* the step is a Builder::write that returned normally
WriteStep == lastCall'.op = "write" /\ pc' = "declare"
\* ... and it cloned its argument
RenamingStep == WriteStep /\ Len(m_resourceNodes') = Len(m_resourceNodes) + 1

\* C5: a handle is valid iff its entry was not cloned since the handle was
\* produced, and only a renaming write of its entry changes its validity.
C5_ValidityInvariant ==
  /\ [](\A h \in NodeIds : isValid(h) <=> ~ Superseded(h))
  /\ [][\A h \in NodeIds :
          (Current(h)' # Current(h))
            => /\ RenamingStep
               /\ EntryOf(lastCall'.id) = EntryOf(h)]_vars

\* a handle was superseded by a renaming write and the graph was then
\* compiled and executed
C5_Witness ==
  /\ pc = "done"
  /\ \E h \in NodeIds : Superseded(h) /\ ~ isValid(h)
  /\ \E h \in NodeIds : isValid(h)

\* C6: a write of a valid id the pass did not create returns a fresh id of
\* the same entry with the next version, records the old id as an ignored
\* read and the new id as the write, and leaves the old id invalid and the
\* new id valid; a write of an id the pass created returns the id and
\* changes no version.
C6_RenamingCorrectness ==
  [][WriteStep =>
       LET id == lastCall'.id
           new == lastCall'.ret
           before == PassAt(m_passNodes, CurrentPass)
           after == PassAt(m_passNodes', CurrentPass)
       IN IF \E i \in 1 .. Len(before.m_creates) : before.m_creates[i] = id
          THEN /\ new = id
               /\ m_resourceRegistry' = m_resourceRegistry
               /\ m_resourceNodes' = m_resourceNodes
               /\ after.m_writes
                    = Append(before.m_writes, [id |-> id, flags |-> lastCall'.flags])
               /\ after.m_reads = before.m_reads
          ELSE /\ new # id
               /\ new \notin NodeIds
               /\ new = Len(m_resourceNodes') - 1
               /\ NodeAt(m_resourceNodes', new).m_resourceId = EntryOf(id)
               /\ NodeAt(m_resourceNodes', new).m_version
                    = _getResourceEntry(id).m_version + 1
               /\ after.m_reads
                    = Append(before.m_reads, [id |-> id, flags |-> kFlagsIgnored])
               /\ after.m_writes
                    = Append(before.m_writes, [id |-> new, flags |-> lastCall'.flags])
               /\ ~ CurrentIn(m_resourceNodes', m_resourceRegistry', id)
               /\ CurrentIn(m_resourceNodes', m_resourceRegistry', new)]_vars

\* the last Builder call was a renaming write, after an earlier write of a
\* created id by its creator
C6_Witness ==
  /\ pc = "declare"
  /\ lastCall.op = "write"
  /\ lastCall.ret # lastCall.id
  /\ ~ isValid(lastCall.id)
  /\ \E p \in PassIds :
       \E i \in 1 .. Len(PassAt(m_passNodes, p).m_writes) :
         creates(PassAt(m_passNodes, p), PassAt(m_passNodes, p).m_writes[i].id)

\* C7: the callbacks run in strictly increasing pass id order, and compile()
\* and execute() keep the passes and their declarations in place.
C7_OrderPreservation ==
  /\ [](\A i, j \in 1 .. Len(log) :
          (i < j /\ log[i].ev = "call" /\ log[j].ev = "call")
            => log[i].pass < log[j].pass)
  /\ [][pc # "declare" =>
          /\ Len(m_passNodes') = Len(m_passNodes)
          /\ \A p \in PassIds :
               PassAt(m_passNodes', p)
                 = [PassAt(m_passNodes, p) EXCEPT
                      !.m_refCount = PassAt(m_passNodes', p).m_refCount]]_vars

\* two callbacks ran and a culled pass between them was skipped
C7_Witness ==
  /\ pc = "done"
  /\ Calls(0) # {} /\ Calls(1) = {} /\ Calls(2) # {}
  /\ PassAt(m_passNodes, 1).m_writes # <<>>

\* a pass writes a node of entry e
Writes(p, e) == e \in WrittenEntries(PassAt(m_passNodes, p))

\* C8: a write to a handle of an imported entry sets the side-effect flag of
\* the writing pass, so the pass executes; execute() never creates or
\* destroys an imported entry.
C8_ImportedResources ==
  /\ [](\A p \in PassIds, e \in EntryIds :
          (Writes(p, e) /\ ~ Transient(e))
            => /\ PassAt(m_passNodes, p).m_hasSideEffect
               /\ pc = "done" => Calls(p) # {})
  /\ [](\A i \in 1 .. Len(log) :
          log[i].ev \in {"create", "destroy"} => Transient(log[i].e))
  /\ [][(WriteStep /\ ~ Transient(EntryOf(lastCall'.id)))
          => PassAt(m_passNodes', CurrentPass).m_hasSideEffect]_vars

\* a pass wrote an imported resource that nobody reads, never called
\* setSideEffect itself, ran, and the entry is the last use of that pass
C8_Witness ==
  /\ pc = "done"
  /\ \E p \in PassIds, e \in EntryIds :
       /\ Writes(p, e)
       /\ ~ Transient(e)
       /\ EntryAt(m_resourceRegistry, e).m_last = p
       /\ Calls(p) # {}
       /\ \A q \in PassIds : q # p => e \notin UsedEntries(PassAt(m_passNodes, q))

\* occurrences of handle h in the read and write lists of all passes
Registered(passes, h) ==
  {<<p, k, i>> \in (1 .. Len(passes)) \X {"r", "w"} \X (1 .. MaxSize) :
     \/ k = "r" /\ i <= Len(passes[p].m_reads) /\ passes[p].m_reads[i].id = h
     \/ k = "w" /\ i <= Len(passes[p].m_writes) /\ passes[p].m_writes[i].id = h}

\* C9: a read or write of a handle whose captured version differs from its
\* entry's version fails its assertion and changes nothing of the graph; a
\* superseded handle is never registered again.
C9_StaleHandleRejected ==
  /\ [][(lastCall'.op \in {"read", "write"} /\ ~ Current(lastCall'.id))
          => /\ pc' = "aborted"
             /\ lastCall'.ret = NoId
             /\ UNCHANGED <<m_passNodes, m_resourceNodes, m_resourceRegistry>>]_vars
  /\ [][\A h \in NodeIds :
          ~ Current(h) => Registered(m_passNodes', h) = Registered(m_passNodes, h)]_vars

\* a read or write of a superseded handle was rejected
C9_Witness ==
  /\ pc = "aborted"
  /\ lastCall.op \in {"read", "write"}
  /\ Superseded(lastCall.id)

\* the passes that have node id in their write list
Writers(id) ==
  {p \in PassIds :
     \E i \in 1 .. Len(PassAt(m_passNodes, p).m_writes) :
       PassAt(m_passNodes, p).m_writes[i].id = id}

\* C10: every resource node is in the write list of at most one pass, and
\* after compile() the producer of a written node is that pass.
C10_SingleProducer ==
  \A id \in NodeIds :
    /\ Cardinality(Writers(id)) <= 1
    /\ (Compiled /\ Writers(id) # {}) => _getResourceNode(id).m_producer \in Writers(id)
    /\ (Compiled /\ Writers(id) = {}) => _getResourceNode(id).m_producer = NoPass

\* two passes wrote the same entry, the second through a clone, and
\* compile() recorded both producers
C10_Witness ==
  /\ Compiled
  /\ \E a, b \in NodeIds :
       /\ a # b
       /\ EntryOf(a) = EntryOf(b)
       /\ _getResourceNode(a).m_producer # NoPass
       /\ _getResourceNode(b).m_producer # NoPass
       /\ _getResourceNode(a).m_producer # _getResourceNode(b).m_producer

\* the step is a Builder::read that returned normally
ReadStep == lastCall'.op = "read" /\ pc' = "declare"

\* C11: Builder::read of a valid id returns the id unchanged, appends it to
\* the read list of the current pass, and leaves alone every entry, every
\* resource node, every other pass, and the write list, the create list and
\* the side-effect flag of the current pass.
C11_ReadFrame ==
  [][ReadStep =>
       LET cur == lastCall'.pass
           before == PassAt(m_passNodes, cur)
           after == PassAt(m_passNodes', cur)
       IN /\ isValid(lastCall'.id)
          /\ cur = CurrentPass
          /\ lastCall'.ret = lastCall'.id
          /\ after.m_reads
               = Append(before.m_reads,
                        [id |-> lastCall'.id, flags |-> lastCall'.flags])
          /\ after.m_writes = before.m_writes
          /\ after.m_creates = before.m_creates
          /\ after.m_hasSideEffect = before.m_hasSideEffect
          /\ Len(m_passNodes') = Len(m_passNodes)
          /\ \A p \in PassIds : p # cur => PassAt(m_passNodes', p) = PassAt(m_passNodes, p)
          /\ m_resourceNodes' = m_resourceNodes
          /\ m_resourceRegistry' = m_resourceRegistry]_vars

\* the last call was a read by a pass without a side effect, declared after
\* another pass, of a node whose entry has been renamed before
C11_Witness ==
  /\ pc = "declare"
  /\ lastCall.op = "read"
  /\ lastCall.pass = CurrentPass
  /\ lastCall.pass > 0
  /\ lastCall.ret = lastCall.id
  /\ ~ PassAt(m_passNodes, lastCall.pass).m_hasSideEffect
  /\ _getResourceNode(lastCall.id).m_version > kResourceInitialVersion
  /\ \E i \in 1 .. Len(PassAt(m_passNodes, lastCall.pass).m_reads) :
       PassAt(m_passNodes, lastCall.pass).m_reads[i].id = lastCall.id

\* ---- culling properties ----------------------------------------------------
\* some pass that executes reads node id
ReadByExecuting(id) ==
  \E q \in PassIds :
    /\ Executes(q)
    /\ \E i \in 1 .. Len(PassAt(m_passNodes, q).m_reads) :
         PassAt(m_passNodes, q).m_reads[i].id = id

\* pass p has no side effect and no pass that executes reads a node it wrote
Unneeded(p) ==
  /\ ~ PassAt(m_passNodes, p).m_hasSideEffect
  /\ \A i \in 1 .. Len(PassAt(m_passNodes, p).m_writes) :
       ~ ReadByExecuting(PassAt(m_passNodes, p).m_writes[i].id)

\* the passes that create a node of entry e
Creators(e) == {p \in PassIds : e \in CreatedEntries(PassAt(m_passNodes, p))}

\* C12: after compile(), every pass without a side effect whose written nodes
\* are read by no pass that executes has reference count zero and is not
\* executed, and a transient entry created only by such passes is never
\* created.
C12_CullingCompleteness ==
  Compiled =>
    /\ \A p \in PassIds :
         Unneeded(p) => /\ PassAt(m_passNodes, p).m_refCount = 0
                        /\ Calls(p) = {}
    /\ \A e \in EntryIds :
         (Transient(e) /\ \A p \in Creators(e) : Unneeded(p))
           => Positions("create", e) = {}

\* ---- lifetime properties ---------------------------------------------------
\* the last pass of the non-empty set S, in declaration order
LastOf(S) == CHOOSE p \in S : \A q \in S : q <= p
LastOrNone(S) == IF S = {} THEN NoPass ELSE LastOf(S)

\* the passes with a positive reference count that read or write entry e
Users(e) ==
  {p \in PassIds :
     /\ PassAt(m_passNodes, p).m_refCount > 0
     /\ e \in ReadEntries(PassAt(m_passNodes, p)) \cup WrittenEntries(PassAt(m_passNodes, p))}

\* the passes with a positive reference count that create entry e
Producers(e) ==
  {p \in PassIds :
     /\ PassAt(m_passNodes, p).m_refCount > 0
     /\ e \in CreatedEntries(PassAt(m_passNodes, p))}

\* C13: after compile(), the last-use pass of every entry is the last pass in
\* declaration order with a positive reference count that reads or writes a
\* node of the entry, and its producer is the last such pass that creates a
\* node of it; each is unset when there is no such pass. Passes with
\* reference count zero contribute nothing, side effect or not.
C13_LifetimeResult ==
  Compiled =>
    \A e \in EntryIds :
      /\ EntryAt(m_resourceRegistry, e).m_last = LastOrNone(Users(e))
      /\ EntryAt(m_resourceRegistry, e).m_producer = LastOrNone(Producers(e))

\* compile() finished on a graph where a side-effect pass with reference
\* count zero reads an entry after the pass recorded as its last use, and
\* the entry has a recorded producer
C13_Witness ==
  /\ Compiled
  /\ \E e \in EntryIds, p \in PassIds :
       /\ PassAt(m_passNodes, p).m_hasSideEffect
       /\ PassAt(m_passNodes, p).m_refCount = 0
       /\ e \in ReadEntries(PassAt(m_passNodes, p))
       /\ EntryAt(m_resourceRegistry, e).m_last # NoPass
       /\ EntryAt(m_resourceRegistry, e).m_last < p
       /\ EntryAt(m_resourceRegistry, e).m_producer # NoPass

\* the number of times node id is on the work stack
OnStack(stack, id) == Cardinality({i \in 1 .. Len(stack) : stack[i] = id})

\* the step is an iteration of the culling loop
CullIteration == pc = "cull" /\ pc' = "cull"

\* C15: reference counts never underflow during culling: a producer about to
\* be decremented has a count of at least one, no pass or node count is ever
\* negative, and a node is pushed on the work stack at most once (it is
\* pushed only when its count drops from positive to zero, counts never grow
\* during culling, and every node on the stack is there once with count zero).
C15_NoUnderflow ==
  /\ [](pc = "cull" /\ Len(unreferencedResources) > 0
          => LET producer ==
                   NodeAt(m_resourceNodes,
                          unreferencedResources[Len(unreferencedResources)]).m_producer
             IN ~ CullSkips(m_passNodes, producer)
                  => PassAt(m_passNodes, producer).m_refCount >= 1)
  /\ [](/\ \A p \in PassIds : PassAt(m_passNodes, p).m_refCount >= 0
        /\ \A id \in NodeIds : _getResourceNode(id).m_refCount >= 0)
  /\ [](pc = "cull"
          => \A id \in NodeIds :
               /\ OnStack(unreferencedResources, id) <= 1
               /\ OnStack(unreferencedResources, id) = 1
                    => _getResourceNode(id).m_refCount = 0)
  /\ [][CullIteration
          => \A id \in NodeIds :
               /\ NodeAt(m_resourceNodes', id).m_refCount
                    <= NodeAt(m_resourceNodes, id).m_refCount
               /\ OnStack(unreferencedResources', id) > OnStack(unreferencedResources, id)
                    => /\ NodeAt(m_resourceNodes, id).m_refCount >= 1
                       /\ NodeAt(m_resourceNodes', id).m_refCount = 0]_vars

\* during culling a pass died (its count went from its number of writes to
\* zero) and a node it read twice was released to zero and pushed
C15_Witness ==
  /\ pc = "cull"
  /\ \E p \in PassIds, id \in NodeIds :
       /\ Len(PassAt(m_passNodes, p).m_writes) > 0
       /\ PassAt(m_passNodes, p).m_refCount = 0
       /\ Cardinality({i \in 1 .. Len(PassAt(m_passNodes, p).m_reads) :
                         PassAt(m_passNodes, p).m_reads[i].id = id}) = 2
       /\ OnStack(unreferencedResources, id) = 1

\* the nodes that are on the work stack or may still be pushed on it
Unpopped ==
  Len(unreferencedResources)
  + Cardinality({id \in NodeIds : _getResourceNode(id).m_refCount > 0})

\* C16: compile() terminates on every graph: once the culling loop is
\* entered the work stack becomes empty and compile() returns, after at most
\* one pop per resource node (every iteration lowers by one the number of
\* nodes that are stacked or still referenced, which starts at no more than
\* the number of nodes).
C16_CompileTerminates ==
  /\ [](pc = "cull" => Unpopped <= Len(m_resourceNodes))
  /\ [][CullIteration => Unpopped' = Unpopped - 1]_vars
  /\ (pc = "cull") ~> (pc = "execute" /\ Len(unreferencedResources) = 0)

\* compile() returned on a graph where a pass reads a node it produced
\* itself by an earlier write, and culling reached that pass
C16_Witness ==
  /\ pc = "execute"
  /\ Len(unreferencedResources) = 0
  /\ \E p \in PassIds :
       /\ PassAt(m_passNodes, p).m_refCount < Len(PassAt(m_passNodes, p).m_writes)
       /\ \E i \in 1 .. Len(PassAt(m_passNodes, p).m_reads) :
            _getResourceNode(PassAt(m_passNodes, p).m_reads[i].id).m_producer = p

\* ---- frame of compile() and execute() --------------------------------------
\* the graph as declared: everything but reference counts and the
\* producer / last-use pointers
DeclaredGraph ==
  [passes |-> [i \in 1 .. Len(m_passNodes) |->
                 [m_reads |-> m_passNodes[i].m_reads,
                  m_writes |-> m_passNodes[i].m_writes,
                  m_creates |-> m_passNodes[i].m_creates,
                  m_hasSideEffect |-> m_passNodes[i].m_hasSideEffect]],
   nodes |-> [i \in 1 .. Len(m_resourceNodes) |->
                [m_resourceId |-> m_resourceNodes[i].m_resourceId,
                 m_version |-> m_resourceNodes[i].m_version]],
   entries |-> [i \in 1 .. Len(m_resourceRegistry) |->
                  [m_version |-> m_resourceRegistry[i].m_version,
                   m_imported |-> m_resourceRegistry[i].m_imported]]]

\* the step belongs to compile() or to execute()
CompileOrExecuteStep == pc' \in {"cull", "execute", "invoke", "done"}

\* C17: compile() and execute() leave the declared graph unchanged: the
\* number and order of the passes, their read, write and create lists and
\* side-effect flags, the resource nodes with their entries and captured
\* versions, and the version and import flag of every entry.
C17_CompileExecuteFrame ==
  [][CompileOrExecuteStep => DeclaredGraph' = DeclaredGraph]_vars

\* execute() returned after compile() culled one pass and kept another,
\* whose resource was created and destroyed
C17_Witness ==
  /\ pc = "done"
  /\ \E p, q \in PassIds :
       /\ ~ Executes(p) /\ Calls(p) = {}
       /\ Len(PassAt(m_passNodes, p).m_writes) > 0
       /\ Calls(q) # {}
  /\ \E i, j \in 1 .. Len(log) : log[i].ev = "create" /\ log[j].ev = "destroy"

\* ---- versions --------------------------------------------------------------
\* the nodes of entry e
NodesOf(e) == {id \in NodeIds : EntryOf(id) = e}

\* the step is a clone of a node of entry e: the entry gets one more node
CloneStep(e) ==
  /\ Len(m_resourceNodes') = Len(m_resourceNodes) + 1
  /\ Len(m_resourceRegistry') = Len(m_resourceRegistry)
  /\ m_resourceNodes'[Len(m_resourceNodes')].m_resourceId = e

\* C18: every resource entry has exactly one valid node, the most recently
\* created node of the entry; its version is the initial version plus the
\* number of clones made of it (every node of an entry but the first is a
\* clone), no two of its nodes carry the same version, and the version never
\* decreases: a clone raises it by one and no other step changes it.
C18_OneValidNode ==
  /\ [](\A e \in EntryIds :
          /\ NodesOf(e) # {}
          /\ {id \in NodesOf(e) : isValid(id)} = {LastOf(NodesOf(e))}
          /\ EntryAt(m_resourceRegistry, e).m_version
               = kResourceInitialVersion + Cardinality(NodesOf(e)) - 1
          /\ \A a, b \in NodesOf(e) :
               a # b => _getResourceNode(a).m_version # _getResourceNode(b).m_version)
  /\ [][\A e \in EntryIds :
          /\ m_resourceRegistry'[e + 1].m_version >= m_resourceRegistry[e + 1].m_version
          /\ m_resourceRegistry'[e + 1].m_version
               = m_resourceRegistry[e + 1].m_version + (IF CloneStep(e) THEN 1 ELSE 0)]_vars

\* in the declaration phase an entry has been cloned twice: it has three
\* nodes, the first two of them superseded
C18_Witness ==
  /\ pc = "declare"
  /\ \E e \in EntryIds :
       /\ Cardinality(NodesOf(e)) = 3
       /\ Cardinality({id \in NodesOf(e) : ~ isValid(id)}) = 2
       /\ EntryAt(m_resourceRegistry, e).m_version = kResourceInitialVersion + 2

\* ---- step order of execute() -----------------------------------------------
\* the place of an event in the steps execute() takes for one pass
Rank(ev) ==
  CASE ev = "create" -> 0
    [] ev \in {"preRead", "preWrite"} -> 1
    [] ev = "call" -> 2
    [] ev = "destroy" -> 3

\* the entries of the events ev logged for pass p, in order
Logged(ev, p) ==
  LET sel == SelectSeq(log, LAMBDA x : x.ev = ev /\ x.pass = p)
  IN [i \in 1 .. Len(sel) |-> sel[i].e]

\* the entries of the accesses whose flags are not the ignored value, in order
Unignored(accesses) ==
  LET sel == SelectSeq(accesses, LAMBDA a : a.flags # kFlagsIgnored)
  IN [i \in 1 .. Len(sel) |-> EntryOf(sel[i].id)]

\* execute() has run the creates and hooks of pass p
Prepared(p) ==
  /\ Compiled
  /\ Executes(p)
  /\ p < execIndex \/ (p = execIndex /\ pc = "invoke")

\* C14: for each pass that executes, execute() runs all creates before any
\* pre-read or pre-write hook, all hooks before the callback, and after the
\* callback the destroys of the entries whose last use is that pass; a hook
\* runs exactly for the read and write edges whose flags are not the ignored
\* value, so the implicit read of a renaming write triggers no pre-read hook.
C14_StepOrder ==
  /\ \A i, j \in 1 .. Len(log) :
       (i < j /\ log[i].pass = log[j].pass) => Rank(log[i].ev) <= Rank(log[j].ev)
  /\ \A i \in 1 .. Len(log) :
       log[i].ev = "destroy"
         => EntryAt(m_resourceRegistry, log[i].e).m_last = log[i].pass
  /\ \A p \in PassIds :
       LET pass == PassAt(m_passNodes, p)
       IN IF Prepared(p)
          THEN /\ Logged("create", p)
                    = [i \in 1 .. Len(pass.m_creates) |-> EntryOf(pass.m_creates[i])]
               /\ Logged("preRead", p) = Unignored(pass.m_reads)
               /\ Logged("preWrite", p) = Unignored(pass.m_writes)
          ELSE /\ Logged("create", p) = <<>>
               /\ Logged("preRead", p) = <<>>
               /\ Logged("preWrite", p) = <<>>

\* execute() returned after running a pass that creates an entry and writes
\* it with hooked flags, and a pass that renames the entry by a write with
\* ignored flags (its implicit read has the ignored flags too) and reads the
\* new node with hooked flags, after which the entry was destroyed
C14_Witness ==
  /\ pc = "done"
  /\ \E p, q \in PassIds :
       LET first == PassAt(m_passNodes, p)
           second == PassAt(m_passNodes, q)
       IN /\ Calls(p) # {} /\ Calls(q) # {}
          /\ Len(first.m_creates) > 0
          /\ \E i \in 1 .. Len(first.m_writes) : first.m_writes[i].flags # kFlagsIgnored
          /\ \E i \in 1 .. Len(second.m_reads), j \in 1 .. Len(second.m_writes) :
               /\ second.m_reads[i].flags = kFlagsIgnored
               /\ second.m_writes[j].flags = kFlagsIgnored
               /\ EntryOf(second.m_reads[i].id) = EntryOf(second.m_writes[j].id)
               /\ _getResourceNode(second.m_writes[j].id).m_version
                    = _getResourceNode(second.m_reads[i].id).m_version + 1
          /\ \E i \in 1 .. Len(second.m_reads) : second.m_reads[i].flags # kFlagsIgnored
          /\ Logged("destroy", q) # <<>>

\* ---- compile() called again ------------------------------------------------
\* what the latest execute() logged, once it returned
LatestRun == SubSeq(log, compiles[Len(compiles)].at + 1, Len(log))

\* what the execute() between the calls k-1 and k of compile() logged
RunBefore(k) == SubSeq(log, compiles[k - 1].at + 1, compiles[k].at)

\* C19: a later call of compile() on the unchanged graph decides the same
\* executing passes and the same producer and last-use pass of every entry
\* as the first call, and the execute() after it performs the same sequence
\* of creates, hooks, callbacks and destroys as the execute() before it.
C19_RecompileSame ==
  /\ \A k \in 2 .. Len(compiles) :
       /\ compiles[k].executes = compiles[1].executes
       /\ compiles[k].producer = compiles[1].producer
       /\ compiles[k].last = compiles[1].last
  /\ pc = "done"
       => \A k \in 2 .. Len(compiles) : compiles[k].ran => LatestRun = RunBefore(k)

\* the reads of node id, and those of them by passes that culling killed
ReadsOf(id) == {t \in Registered(m_passNodes, id) : t[2] = "r"}
ReleasedReadsOf(id) ==
  {t \in ReadsOf(id) :
     /\ Len(m_passNodes[t[1]].m_writes) > 0
     /\ m_passNodes[t[1]].m_refCount = 0}

\* compile() ran again after an execute() and a second execute() returned,
\* on a graph where culling killed a pass that read a node another pass
\* still reads: the count of the node is twice what one call leaves
C19_Witness ==
  /\ pc = "done"
  /\ Len(compiles) = 2
  /\ compiles[2].ran
  /\ \E i \in 1 .. Len(LatestRun) : LatestRun[i].ev = "destroy"
  /\ \E id \in NodeIds :
       /\ ReleasedReadsOf(id) # {}
       /\ ReleasedReadsOf(id) # ReadsOf(id)
       /\ _getResourceNode(id).m_refCount
            = 2 * (Cardinality(ReadsOf(id)) - Cardinality(ReleasedReadsOf(id)))

====
